---- MODULE Spec2Model ----
(***************************************************************************)
(* Single-sign-on gateway: PKCE login/callback, logout, and the JWT        *)
(* authentication middleware, all sharing one Redis cache.                 *)
(*                                                                         *)
(* Every request is one coroutine.  An action is the code a coroutine runs *)
(* between two suspension points (an await on Redis or on aiohttp): the    *)
(* action named after an await fires when that await completes and runs    *)
(* up to the next one.  The cache applies single operations atomically.    *)
(* A slot holds a request and, once it ended, its response until the next  *)
(* request arrives; slots are reused.                                      *)
(***************************************************************************)
EXTENDS Integers, Sequences, FiniteSets, TLC

\* ------------------------------------------------------------------ bounds
MaxInFlight == 2    \* requests in flight at the same time
NumLogins == 1      \* logins (state, code verifier, token pair) in a behaviour
MaxExchanges == 2   \* token-exchange calls the issuer receives in a behaviour
MaxExpiresIn == 1   \* largest expires_in the issuer reports
MaxTtl == 4         \* has_token_expired is tried on TTLs -MaxTtl..MaxTtl

Slots == 1..MaxInFlight

StateNames == <<"s1", "s2", "s3">>
VerifierNames == <<"v1", "v2", "v3">>
TokenNames == <<"AT1", "AT2", "AT3", "AT4">>
Min(a, b) == IF a < b THEN a ELSE b
States == {StateNames[i] : i \in 1..Min(NumLogins, Len(StateNames))}
Verifiers == {VerifierNames[i] : i \in 1..Min(NumLogins, Len(VerifierNames))}
AccessTokens == {TokenNames[i] : i \in 1..Min(NumLogins, Len(TokenNames))}
UnknownState == "sX"    \* a state no login ever issued
ForeignToken == "ATX"   \* a token the issuer signed, but not for a callback
PkceCode == "abc123"

\* ------------------------------------------------------------- Python values
None == "<None>"        \* Python's None
NoToken == ""           \* the extractor found no bearer token
Str(v) == IF v = None THEN "None" ELSE v
Truthy(v) == v \notin {None, "", "False"}
PyBool(b) == IF b THEN "True" ELSE "False"

\* ------------------------------------------------------------------- keys
\* A key is the sequence of its pieces; a template carries its placeholder.
CODE_VERIFIER_REDIS_KEY == <<"forest:sso:avanpost:code_verifier:", "{state}">>
TOKEN_REDIS_KEY == <<"forest:sso:token:", "{access_token}">>

\* str.format(name=value): every placeholder {name} is replaced by value
Format(tpl, name, value) ==
    [i \in DOMAIN tpl |-> IF tpl[i] = "{" \o name \o "}" THEN value ELSE tpl[i]]

\* f"{tpl}:{value}": the template text itself, a colon, the value
FString(tpl, value) == tpl \o <<":", value>>

CodeVerifierKey(state) == Format(CODE_VERIFIER_REDIS_KEY, "state", state)
\* the key set_access_token writes: the template, never formatted
AccessTokenKey(access_token) == TOKEN_REDIS_KEY
\* the key set_refresh_token writes and logout, is_revoked, sso_callback read
TokenPairKey(access_token) == FString(TOKEN_REDIS_KEY, access_token)

\* the refresh token the issuer hands out with an access token
RefreshTokenOf(access_token) == "R" \o access_token

VARIABLES
    cache,      \* Redis: key -> [value, ttl]
    req,        \* slot -> the request's inputs, the coroutine's locals, its pc
    drawn,      \* the random strings os.urandom produced so far
    issuer,     \* the identity provider: tokens issued, calls received
    hist,       \* what the clients were answered: states and tokens handed
                \* out, states redeemed, tokens logged out
    blocked,    \* the slot (at most one) whose blocking HTTP call holds the loop
    is_revoked_cfg  \* middleware option is_revoked: configured or not

vars == <<cache, req, drawn, issuer, hist, blocked, is_revoked_cfg>>

NO_EXPIRY == -1     \* redis TTL of a key that never expires
KEY_ABSENT == -2    \* redis TTL of a key that does not exist

\* ------------------------------------------------------------------ cache
Exists(c, k) == k \in DOMAIN c
Get(c, k) == IF k \in DOMAIN c THEN c[k].value ELSE None
\* redis SET key value [EX expire]; aioredis sends EX only for a truthy expire
Set(c, k, v, expire) ==
    [x \in DOMAIN c \cup {k} |->
        IF x = k THEN [value |-> v,
                       ttl |-> IF expire > 0 THEN expire ELSE NO_EXPIRY]
        ELSE c[x]]
Delete(c, k) == [x \in DOMAIN c \ {k} |-> c[x]]
EmptyCache == [x \in {} |-> None]

\* --------------------------------------------------------------- requests
Blank ==
    [kind |-> "idle", pc |-> "idle", result |-> None,
     state |-> None, code |-> None, code_verifier |-> None,
     access_token |-> None, refresh_token |-> None, expires_in |-> 0,
     sso_token |-> None, token |-> None,
     method |-> None, whitelisted |-> FALSE, jwt |-> None,
     exists |-> None, revoked |-> None, path |-> <<>>, attached |-> {}, url |-> <<>>,
     called |-> {}, wrote |-> {},
     since |-> {},
     cancelled |-> FALSE, resp |-> None, status |-> None, ttl |-> None]

Running(r) == req[r].pc \notin {"idle", "done"}
\* a request takes the first slot that is free
CanStart(r) ==
    /\ blocked = {}
    /\ ~Running(r)
    /\ \A q \in Slots : q < r => Running(q)
At(r, kind, pc) == blocked = {} /\ req[r].kind = kind /\ req[r].pc = pc

\* the slots once a request arrives in slot r: earlier responses are gone;
\* `since` keeps which of the states and tokens the request carries had been
\* redeemed or logged out when it arrived
Begin(r, rec) ==
    [q \in Slots |-> IF q = r
                     THEN [rec EXCEPT !.since =
                            {rec.state, rec.token}
                                \cap (hist.redeemed \cup hist.logged_out)]
                     ELSE IF req[q].pc = "done" THEN Blank ELSE req[q]]

Finish(rec, result) == [rec EXCEPT !.pc = "done", !.result = result]
Called(rec, endpoint) == [rec EXCEPT !.called = @ \cup {endpoint}]
Wrote(rec, k) == [rec EXCEPT !.wrote = @ \cup {k}]

Init ==
    /\ cache = EmptyCache
    /\ req = [r \in Slots |-> Blank]
    /\ drawn = {}
    /\ issuer = [issued |-> {}, granted |-> {}, exchanges |-> <<>>,
                 revoked |-> {}]
    /\ hist = [states |-> {}, redeemed |-> {}, tokens |-> {},
               logged_out |-> {}]
    /\ blocked = {}
    /\ is_revoked_cfg \in BOOLEAN

\* ------------------------------------------------------------------ login
\* base64url(sha256(code_verifier)) with the padding removed
Sha256(v) == <<"sha256", v>>
UrlsafeB64(d) == <<"b64url">> \o d \o <<"=">>
\* the padding left in place
StripPadding_Kept(e) == e

\* code_challenge.replace('=', '')
StripPadding(e) == SelectSeq(e, LAMBDA x : x # "=")
get_code_challenge(code_verifier) ==
    StripPadding(UrlsafeB64(Sha256(code_verifier)))

\* login up to `await redis_conn.set` in set_code_verifier; generate_state
\* and get_code_verifier draw fresh random strings
LoginStart(r) ==
    /\ CanStart(r)
    /\ \E s \in States \ drawn, v \in Verifiers \ drawn :
        /\ req' = Begin(r, [Blank EXCEPT !.kind = "login",
                    !.pc = "login_set", !.state = s, !.code_verifier = v])
        /\ drawn' = drawn \cup {s, v}
    /\ UNCHANGED <<cache, issuer, hist, blocked, is_revoked_cfg>>

\* set_code_verifier: redis_conn.set(key, value), no expire
set_code_verifier(c, code_verifier, state) ==
    Set(c, CodeVerifierKey(state), code_verifier, 0)

LoginSet(r) ==
    /\ At(r, "login", "login_set")
    /\ cache' = set_code_verifier(cache, req[r].code_verifier, req[r].state)
    /\ req' = [req EXCEPT ![r] =
            [Wrote(req[r], CodeVerifierKey(req[r].state))
                EXCEPT !.pc = "login_exists"]]
    /\ UNCHANGED <<drawn, issuer, hist, blocked, is_revoked_cfg>>

\* set_code_verifier's assert, then login raises HTTPFound(AUTHORIZATION_URL)
LoginExists(r) ==
    /\ At(r, "login", "login_exists")
    /\ IF Exists(cache, CodeVerifierKey(req[r].state))
       THEN /\ req' = [req EXCEPT ![r] = [Finish(req[r], "302") EXCEPT !.url =
                <<get_code_challenge(req[r].code_verifier), req[r].state>>]]
            /\ hist' = [hist EXCEPT !.states = @ \cup {req[r].state}]
       ELSE /\ req' = [req EXCEPT ![r] = Finish(req[r], "AssertionError")]
            /\ hist' = hist
    /\ UNCHANGED <<cache, drawn, issuer, blocked, is_revoked_cfg>>

\* --------------------------------------------------------------- callback
\* What the issuer can answer to a token exchange.  It grants a token pair
\* only for a code verifier that a login produced, once for each, and a new
\* access token each time; it may refuse any exchange: with an error
\* payload, with a body that is no JSON, or with an error status.
ExchangeResponses(code_verifier) ==
    {[kind |-> k, access_token |-> None, expires_in |-> 0] :
        k \in {"error", "bad_json", "http_error"}}
    \cup
    (IF code_verifier \in Verifiers \ issuer.granted
     THEN {[kind |-> "tokens", access_token |-> t, expires_in |-> n] :
            t \in AccessTokens \ issuer.issued, n \in 1..MaxExpiresIn}
     ELSE {})

\* callbacks that will still send their exchange
ExchangesPending ==
    Cardinality({q \in Slots : req[q].kind = "callback" /\ req[q].pc = "cb_get"
                                /\ Truthy(req[q].code)})

\* sso_callback up to `await redis_conn.get(code_verifier_key)`
CallbackStart(r) ==
    /\ CanStart(r)
    /\ \E s \in hist.states \cup {UnknownState}, c \in {PkceCode, None} :
        /\ Truthy(c) =>
            Len(issuer.exchanges) + ExchangesPending < MaxExchanges
        /\ req' = Begin(r, [Blank EXCEPT !.kind = "callback",
                    !.pc = "cb_get", !.state = s, !.code = c])
    /\ UNCHANGED <<cache, drawn, issuer, hist, blocked, is_revoked_cfg>>

\* the test of the code forgotten
CodeMissing_Never(code) == FALSE

\* `if not code: raise web.HTTPBadRequest`
CodeMissing(code) == ~Truthy(code)

\* the body request_exchange posts to TOKEN_URL
ExchangeBody(pkce_code, code_verifier) ==
    [grant_type |-> "authorization_code", code |-> Str(pkce_code),
     code_verifier |-> Str(code_verifier)]

\* the get returns; the code is checked; the exchange request is sent
CallbackGet(r) ==
    /\ At(r, "callback", "cb_get")
    /\ LET cv == Get(cache, CodeVerifierKey(req[r].state))
           rec == [req[r] EXCEPT !.code_verifier = cv] IN
        IF CodeMissing(req[r].code)
        THEN /\ req' = [req EXCEPT ![r] = Finish(rec, "400")]
             /\ issuer' = issuer
        ELSE /\ req' = [req EXCEPT ![r] =
                    [Called(rec, "token") EXCEPT !.pc = "cb_exchange"]]
             /\ issuer' = [issuer EXCEPT !.exchanges =
                    Append(@, ExchangeBody(req[r].code, cv).code_verifier)]
    /\ UNCHANGED <<cache, drawn, hist, blocked, is_revoked_cfg>>

\* json_or_raise_for_status on the issuer's answer
json_or_raise_for_status(rec, resp) ==
    CASE resp.kind = "tokens" ->
            [rec EXCEPT !.pc = "cb_revoke_delete",
                        !.access_token = resp.access_token,
                        !.refresh_token = RefreshTokenOf(resp.access_token),
                        !.expires_in = resp.expires_in]
      [] resp.kind = "bad_json" -> Finish(rec, "400")
      [] resp.kind = "error" -> Finish(rec, "400")
      [] OTHER -> Finish(rec, "ClientResponseError")

\* request_exchange returns
CallbackExchange(r) ==
    /\ At(r, "callback", "cb_exchange")
    /\ \E resp \in ExchangeResponses(req[r].code_verifier) :
        /\ req' = [req EXCEPT ![r] = json_or_raise_for_status(
                        [req[r] EXCEPT !.resp = resp.kind], resp)]
        /\ issuer' = IF resp.kind = "tokens"
                     THEN [issuer EXCEPT
                            !.issued = @ \cup {resp.access_token},
                            !.granted = @ \cup {req[r].code_verifier}]
                     ELSE issuer
    /\ UNCHANGED <<cache, drawn, hist, blocked, is_revoked_cfg>>

\* revoke_code_verifier: redis_conn.delete(code_verifier_key)
CallbackRevokeDelete(r) ==
    /\ At(r, "callback", "cb_revoke_delete")
    /\ cache' = Delete(cache, CodeVerifierKey(req[r].state))
    /\ req' = [req EXCEPT ![r] =
            [Wrote(req[r], CodeVerifierKey(req[r].state))
                EXCEPT !.pc = "cb_revoke_exists"]]
    /\ UNCHANGED <<drawn, issuer, hist, blocked, is_revoked_cfg>>

\* revoke_code_verifier's assert
CallbackRevokeExists(r) ==
    /\ At(r, "callback", "cb_revoke_exists")
    /\ req' = [req EXCEPT ![r] =
        IF Exists(cache, CodeVerifierKey(req[r].state))
        THEN Finish(req[r], "AssertionError")
        ELSE [req[r] EXCEPT !.pc = "cb_set_access"]]
    /\ UNCHANGED <<cache, drawn, issuer, hist, blocked, is_revoked_cfg>>

\* set_access_token: redis_conn.set(TOKEN_REDIS_KEY, access_token, expire)
set_access_token(c, access_token, expires_in) ==
    Set(c, AccessTokenKey(access_token), access_token, expires_in)

\* set_refresh_token: redis_conn.set(f"{TOKEN_REDIS_KEY}:{access_token}", rt)
set_refresh_token(c, access_token, refresh_token) ==
    Set(c, TokenPairKey(access_token), refresh_token, 0)

CallbackSetAccess(r) ==
    /\ At(r, "callback", "cb_set_access")
    /\ cache' = set_access_token(cache, req[r].access_token,
                                 req[r].expires_in)
    /\ req' = [req EXCEPT ![r] =
            [Wrote(req[r], AccessTokenKey(req[r].access_token))
                EXCEPT !.pc = "cb_set_refresh"]]
    /\ UNCHANGED <<drawn, issuer, hist, blocked, is_revoked_cfg>>

CallbackSetRefresh(r) ==
    /\ At(r, "callback", "cb_set_refresh")
    /\ cache' = set_refresh_token(cache, req[r].access_token,
                                  req[r].refresh_token)
    /\ req' = [req EXCEPT ![r] =
            [Wrote(req[r], TokenPairKey(req[r].access_token))
                EXCEPT !.pc = "cb_assert"]]
    /\ UNCHANGED <<drawn, issuer, hist, blocked, is_revoked_cfg>>

\* sso_callback's assert, then the redirect carrying the tokens
CallbackAssert(r) ==
    /\ At(r, "callback", "cb_assert")
    /\ IF Exists(cache, TokenPairKey(req[r].access_token))
       THEN /\ req' = [req EXCEPT ![r] = Finish(req[r], "302")]
            /\ hist' = [hist EXCEPT
                        !.redeemed = @ \cup {req[r].state},
                        !.tokens = @ \cup {req[r].access_token}]
       ELSE /\ req' = [req EXCEPT ![r] = Finish(req[r], "AssertionError")]
            /\ hist' = hist
    /\ UNCHANGED <<cache, drawn, issuer, blocked, is_revoked_cfg>>

\* ----------------------------------------------------------------- logout
\* the bearer tokens a client can hold
ClientTokens == hist.tokens \cup {ForeignToken}

\* logout up to `await redis_conn.get(token_key)`; sso_token is what the
\* middleware stored on the request
LogoutStart(r) ==
    /\ CanStart(r)
    /\ \E t \in ClientTokens :
        req' = Begin(r, [Blank EXCEPT !.kind = "logout",
                    !.pc = "lo_get", !.sso_token = t])
    /\ UNCHANGED <<cache, drawn, issuer, hist, blocked, is_revoked_cfg>>

\* the check forgotten: every token is taken to be present
TokenIsNone_Skipped(token) == FALSE

\* `if token is None: raise TokenAlreadyRevoked`
TokenIsNone(token) == token = None

\* the get returns; an absent token ends the request; else requests.post
\* starts, and it does not give the event loop back while it waits
LogoutGet(r) ==
    /\ At(r, "logout", "lo_get")
    /\ LET token == Get(cache, TokenPairKey(req[r].sso_token))
           rec == [req[r] EXCEPT !.token = token] IN
        IF TokenIsNone(token)
        THEN /\ req' = [req EXCEPT ![r] = Finish(rec, "TokenAlreadyRevoked")]
             /\ blocked' = blocked
        ELSE /\ req' = [req EXCEPT ![r] =
                    [Called(rec, "revoke") EXCEPT !.pc = "lo_post"]]
             /\ blocked' = {r}
    /\ UNCHANGED <<cache, drawn, issuer, hist, is_revoked_cfg>>

\* the issuer's status not looked at
RevocationFailed_Never(status) == FALSE

\* `if response.status_code != http.HTTPStatus.OK: raise ValueError`
RevocationFailed(status) == status # "200"

\* requests.post returns with the issuer's status; on success the coroutine
\* goes on to `assert await redis_conn.exists(token_key)`
LogoutPost(r) ==
    /\ blocked = {r}
    /\ req[r].kind = "logout" /\ req[r].pc = "lo_post"
    /\ \E status \in {"200", "400", "503"} :
        LET rec == [req[r] EXCEPT !.status = status] IN
        IF RevocationFailed(status)
        THEN /\ req' = [req EXCEPT ![r] = Finish(rec, "ValueError")]
             /\ issuer' = issuer
        ELSE /\ req' = [req EXCEPT ![r] = [rec EXCEPT !.pc = "lo_exists"]]
             /\ issuer' = [issuer EXCEPT !.revoked = @ \cup {req[r].token}]
    /\ blocked' = {}
    /\ UNCHANGED <<cache, drawn, hist, is_revoked_cfg>>

\* `assert await redis_conn.exists(token_key)`
LogoutExists(r) ==
    /\ At(r, "logout", "lo_exists")
    /\ req' = [req EXCEPT ![r] =
        IF Exists(cache, TokenPairKey(req[r].sso_token))
        THEN [req[r] EXCEPT !.pc = "lo_delete"]
        ELSE Finish(req[r], "AssertionError")]
    /\ UNCHANGED <<cache, drawn, issuer, hist, blocked, is_revoked_cfg>>

\* `await redis_conn.delete(token_key)`
LogoutDelete(r) ==
    /\ At(r, "logout", "lo_delete")
    /\ cache' = Delete(cache, TokenPairKey(req[r].sso_token))
    /\ req' = [req EXCEPT ![r] =
            [Wrote(req[r], TokenPairKey(req[r].sso_token))
                EXCEPT !.pc = "lo_gone"]]
    /\ UNCHANGED <<drawn, issuer, hist, blocked, is_revoked_cfg>>

\* `assert not await redis_conn.exists(token_key)`, then HTTPNoContent; a
\* client that went away is not answered
LogoutGone(r) ==
    /\ At(r, "logout", "lo_gone")
    /\ IF Exists(cache, TokenPairKey(req[r].sso_token))
       THEN /\ req' = [req EXCEPT ![r] = Finish(req[r], "AssertionError")]
            /\ hist' = hist
       ELSE /\ req' = [req EXCEPT ![r] = Finish(req[r], "204")]
            /\ hist' = IF req[r].cancelled THEN hist
                       ELSE [hist EXCEPT !.logged_out = @ \cup {req[r].sso_token}]
    /\ UNCHANGED <<cache, drawn, issuer, blocked, is_revoked_cfg>>

\* ------------------------------------------------------------- middleware
\* What a bearer token turns out to be when it is decoded.
JwtKinds ==
    {"valid", "valid_other_group", "valid_no_groups", "malformed",
     "bad_signature", "expired", "bad_issuer", "bad_audience", "unknown_kid"}

\* request_public_key after the key set arrived, then jwt.decode:
\* get_unverified_header, keys[kid], signature, exp, iss, aud
Decode(jwt) ==
    CASE jwt = "malformed" -> "InvalidTokenError"
      [] jwt = "unknown_kid" -> "KeyError"
      [] jwt \in {"bad_signature", "expired", "bad_issuer", "bad_audience"} ->
            "InvalidTokenError"
      [] OTHER -> "decoded"

\* has_permissions: any(group.get('name') == PARMA_ML_GROUP_NAME
\*                      for group in token.get('groups'))
has_permissions(jwt) ==
    CASE jwt = "valid" -> "True"
      [] jwt = "valid_other_group" -> "False"
      [] OTHER -> "TypeError"

\* is_revoked: the value of exists is computed and dropped; falling off the
\* end of the function returns None
is_revoked(c, token) ==
    LET found == Exists(c, TokenPairKey(token)) IN None

Step(rec, stage) == [rec EXCEPT !.path = Append(@, stage)]

\* the middleware options the application sets: the claims go under
\* request['payload'], the raw token under request['sso_token']
REQUEST_PROPERTY == "payload"
STORE_TOKEN == "sso_token"

\* from `request[request_property] = decoded` to `await handler(request)`
AttachCheckDelegate(rec) ==
    LET attached == [Step(rec, "CONTEXT_ATTACH")
                        EXCEPT !.attached = @ \cup {REQUEST_PROPERTY}]
        checked == Step(attached, "PERMISSION_CHECK")
        allowed == has_permissions(rec.jwt) IN
    CASE allowed = "TypeError" -> Finish(checked, "TypeError")
      [] allowed = "False" -> Finish(checked, "403 Forbidden")
      [] OTHER ->
            Finish([Step(checked, "DELEGATE")
                        EXCEPT !.attached = @ \cup {STORE_TOKEN}], "handler")

\* the requests a client can send: method, whitelisted path or not, the
\* bearer token and what it decodes to
AllRequests ==
    {[method |-> m, whitelisted |-> w, token |-> t, jwt |-> j] :
        m \in {"GET", "OPTIONS"}, w \in BOOLEAN,
        t \in ClientTokens, j \in JwtKinds}
    \cup {[method |-> m, whitelisted |-> w, token |-> NoToken, jwt |-> None] :
            m \in {"GET", "OPTIONS"}, w \in BOOLEAN}
\* requests for a protected path that carry a token the issuer signed for a
\* member of the required group
MemberRequests ==
    {i \in AllRequests : i.method = "GET" /\ ~i.whitelisted /\ i.jwt = "valid"}

\* the preflight test forgotten
IsPreflight_Never(method) == FALSE

\* `if request.method == hdrs.METH_OPTIONS`
IsPreflight(method) == method = "OPTIONS"

\* check_request(request, whitelist): true for a path the whitelist matches
check_request(path_matches) == path_matches

\* jwt_middleware up to the first await of decode_avanpost_jwt
MiddlewareBegin(r, inputs) ==
    /\ CanStart(r)
    /\ \E i \in inputs :
        LET rec == [Blank EXCEPT !.kind = "mw", !.method = i.method,
                        !.whitelisted = i.whitelisted, !.token = i.token,
                        !.jwt = i.jwt]
            checked == Step(rec, "WHITELIST_CHECK")
            extracted == Step(checked, "TOKEN_EXTRACT") IN
        req' = Begin(r,
            IF IsPreflight(i.method) THEN
                Finish(Step(rec, "DELEGATE"), "handler")
            ELSE IF check_request(i.whitelisted) THEN
                Finish(Step(checked, "DELEGATE"), "handler")
            ELSE IF ~Truthy(i.token) THEN
                Finish(extracted, "401 Missing authorization token")
            ELSE [Called(Step(extracted, "TOKEN_VERIFY"), "userinfo")
                    EXCEPT !.pc = "mw_userinfo"])
    /\ UNCHANGED <<cache, drawn, issuer, hist, blocked, is_revoked_cfg>>

MiddlewareStart(r) == MiddlewareBegin(r, MemberRequests)

\* request_token_info returns (raise_for_status), then the key set is asked for
MiddlewareUserinfo(r) ==
    /\ At(r, "mw", "mw_userinfo")
    /\ \E ok \in BOOLEAN :
        req' = [req EXCEPT ![r] =
            IF ok THEN [Called(req[r], "public_keys") EXCEPT !.pc = "mw_jwks"]
            ELSE Finish(req[r], "ClientResponseError")]
    /\ UNCHANGED <<cache, drawn, issuer, hist, blocked, is_revoked_cfg>>

\* request_json_web_keys returns (raise_for_status); the token is decoded;
\* a configured is_revoked is awaited, else the request goes on to its end
MiddlewareJwks(r) ==
    /\ At(r, "mw", "mw_jwks")
    /\ \E ok \in BOOLEAN :
        req' = [req EXCEPT ![r] =
            IF ~ok THEN Finish(req[r], "ClientResponseError")
            ELSE IF Decode(req[r].jwt) = "InvalidTokenError" THEN
                Finish(req[r], "401 Invalid authorization token")
            ELSE IF Decode(req[r].jwt) = "KeyError" THEN
                Finish(req[r], "KeyError")
            ELSE IF is_revoked_cfg THEN
                [Step(req[r], "REVOCATION_CHECK") EXCEPT !.pc = "mw_is_revoked"]
            ELSE AttachCheckDelegate(req[r])]
    /\ UNCHANGED <<cache, drawn, issuer, hist, blocked, is_revoked_cfg>>

\* redis_conn.exists returns inside is_revoked; the middleware tests what
\* is_revoked returned
MiddlewareIsRevoked(r) ==
    /\ At(r, "mw", "mw_is_revoked")
    /\ LET rec == [req[r] EXCEPT
                    !.exists = PyBool(Exists(cache, TokenPairKey(req[r].token))),
                    !.revoked = is_revoked(cache, req[r].token)] IN
        req' = [req EXCEPT ![r] =
            IF Truthy(rec.revoked)
            THEN Finish(rec, "403 Token is revoked")
            ELSE AttachCheckDelegate(rec)]
    /\ UNCHANGED <<cache, drawn, issuer, hist, blocked, is_revoked_cfg>>

\* ---------------------------------------------------------------- refresh
\* the placeholders str.format fills from keyword arguments only
NamedPlaceholders == {"{state}", "{access_token}"}

\* str.format(value), one positional argument: "{}" takes the value; a named
\* placeholder finds no keyword argument and str.format raises KeyError
FormatPositional(tpl, value) ==
    IF \E i \in DOMAIN tpl : tpl[i] \in NamedPlaceholders
    THEN "KeyError"
    ELSE [i \in DOMAIN tpl |-> IF tpl[i] = "{}" THEN value ELSE tpl[i]]

\* refresh_tokens, through refresh_access_token, up to its first await,
\* `await redis.ttl` in has_token_expired: the tokens are read from
\* request['payload'] and the key is built with TOKEN_REDIS_KEY.format
RefreshStart(r) ==
    /\ CanStart(r)
    /\ \E t \in ClientTokens :
        LET rec == [Blank EXCEPT !.kind = "refresh", !.access_token = t,
                        !.refresh_token = RefreshTokenOf(t)]
            access_token_key == FormatPositional(TOKEN_REDIS_KEY, t) IN
        req' = Begin(r,
            IF access_token_key = "KeyError"
            THEN Finish(rec, "KeyError")
            ELSE [rec EXCEPT !.pc = "rf_ttl"])
    /\ UNCHANGED <<cache, drawn, issuer, hist, blocked, is_revoked_cfg>>

\* ----------------------------------------------------------- cancellation
\* the handlers decorated with @shielded, none forgotten
Shielded_None(kind) == FALSE

\* the handlers decorated with @shielded: logout and refresh_tokens
Shielded(kind) == kind \in {"logout", "refresh"}

\* The client drops the connection and aiohttp cancels the request's task:
\* CancelledError is raised at the await the coroutine is suspended at.  A
\* shielded handler keeps running (asyncio.shield), only its answer is lost.
\* While requests.post blocks the loop nothing is delivered.
Cancel(r) ==
    /\ blocked = {}
    /\ Running(r) /\ ~req[r].cancelled
    /\ req' = [req EXCEPT ![r] =
            IF Shielded(req[r].kind)
            THEN [req[r] EXCEPT !.cancelled = TRUE]
            ELSE Finish([req[r] EXCEPT !.cancelled = TRUE], "CancelledError")]
    /\ UNCHANGED <<cache, drawn, issuer, hist, blocked, is_revoked_cfg>>

\* ------------------------------------------------------------------- time
\* One unit of time passes in Redis: TTLs count down, expired keys vanish.
Tick ==
    /\ blocked = {}
    /\ \E k \in DOMAIN cache : cache[k].ttl > 0
    /\ cache' = [k \in {x \in DOMAIN cache : cache[x].ttl # 1} |->
                    IF cache[k].ttl > 0
                    THEN [cache[k] EXCEPT !.ttl = @ - 1] ELSE cache[k]]
    /\ UNCHANGED <<req, drawn, issuer, hist, blocked, is_revoked_cfg>>

Next ==
    \/ \E r \in Slots : LoginStart(r)
    \/ \E r \in Slots : LoginSet(r)
    \/ \E r \in Slots : LoginExists(r)
    \/ \E r \in Slots : CallbackStart(r)
    \/ \E r \in Slots : CallbackGet(r)
    \/ \E r \in Slots : CallbackExchange(r)
    \/ \E r \in Slots : CallbackRevokeDelete(r)
    \/ \E r \in Slots : CallbackRevokeExists(r)
    \/ \E r \in Slots : CallbackSetAccess(r)
    \/ \E r \in Slots : CallbackSetRefresh(r)
    \/ \E r \in Slots : CallbackAssert(r)
    \/ \E r \in Slots : LogoutStart(r)
    \/ \E r \in Slots : LogoutGet(r)
    \/ \E r \in Slots : LogoutPost(r)
    \/ \E r \in Slots : LogoutExists(r)
    \/ \E r \in Slots : LogoutDelete(r)
    \/ \E r \in Slots : LogoutGone(r)
    \/ \E r \in Slots : MiddlewareStart(r)
    \/ \E r \in Slots : MiddlewareUserinfo(r)
    \/ \E r \in Slots : MiddlewareJwks(r)
    \/ \E r \in Slots : MiddlewareIsRevoked(r)
    \/ \E r \in Slots : RefreshStart(r)
    \/ \E r \in Slots : Cancel(r)
    \/ Tick

Spec == Init /\ [][Next]_vars

\* The middleware under every request a client can send, the requests of
\* all kinds served one at a time.
Quiet == \A q \in Slots : ~Running(q)
MiddlewareAny(r) == Quiet /\ MiddlewareBegin(r, AllRequests)

NextMiddleware ==
    \/ \E r \in Slots : MiddlewareAny(r)
    \/ \E r \in Slots : MiddlewareUserinfo(r)
    \/ \E r \in Slots : MiddlewareJwks(r)
    \/ \E r \in Slots : MiddlewareIsRevoked(r)
    \/ \E r \in Slots : Quiet /\ LoginStart(r)
    \/ \E r \in Slots : LoginSet(r)
    \/ \E r \in Slots : LoginExists(r)
    \/ \E r \in Slots : Quiet /\ CallbackStart(r)
    \/ \E r \in Slots : CallbackGet(r)
    \/ \E r \in Slots : CallbackExchange(r)
    \/ \E r \in Slots : CallbackRevokeDelete(r)
    \/ \E r \in Slots : CallbackRevokeExists(r)
    \/ \E r \in Slots : CallbackSetAccess(r)
    \/ \E r \in Slots : CallbackSetRefresh(r)
    \/ \E r \in Slots : CallbackAssert(r)
    \/ \E r \in Slots : Quiet /\ LogoutStart(r)
    \/ \E r \in Slots : LogoutGet(r)
    \/ \E r \in Slots : LogoutPost(r)
    \/ \E r \in Slots : LogoutExists(r)
    \/ \E r \in Slots : LogoutDelete(r)
    \/ \E r \in Slots : LogoutGone(r)
    \/ Tick

SpecMiddleware == Init /\ [][NextMiddleware]_vars

\* The application with a token pair already in the cache: a callback
\* before the behaviour starts was granted PriorToken and wrote its entries.
PriorToken == "AT0"

InitIssued ==
    /\ \E n \in 1..MaxExpiresIn :
        cache = set_refresh_token(
                    set_access_token(EmptyCache, PriorToken, n),
                    PriorToken, RefreshTokenOf(PriorToken))
    /\ req = [r \in Slots |-> Blank]
    /\ drawn = {}
    /\ issuer = [issued |-> {PriorToken}, granted |-> {}, exchanges |-> <<>>,
                 revoked |-> {}]
    /\ hist = [states |-> {}, redeemed |-> {}, tokens |-> {PriorToken},
               logged_out |-> {}]
    /\ blocked = {}
    /\ is_revoked_cfg \in BOOLEAN

\* the requests that issue tokens (login with callback, refresh), in any
\* interleaving, and the passing of time
NextIssued ==
    \/ \E r \in Slots : LoginStart(r)
    \/ \E r \in Slots : LoginSet(r)
    \/ \E r \in Slots : LoginExists(r)
    \/ \E r \in Slots : CallbackStart(r)
    \/ \E r \in Slots : CallbackGet(r)
    \/ \E r \in Slots : CallbackExchange(r)
    \/ \E r \in Slots : CallbackRevokeDelete(r)
    \/ \E r \in Slots : CallbackRevokeExists(r)
    \/ \E r \in Slots : CallbackSetAccess(r)
    \/ \E r \in Slots : CallbackSetRefresh(r)
    \/ \E r \in Slots : CallbackAssert(r)
    \/ \E r \in Slots : RefreshStart(r)
    \/ Tick

SpecIssued == InitIssued /\ [][NextIssued]_vars

\* --------------------------------------------------------- has_token_expired
\* absent and never-expiring keys taken for one another
has_token_expired_Conflated(ttl) ==
    IF ttl < 0 THEN PyBool(FALSE) ELSE PyBool(ttl <= 0)

\* has_token_expired on what `await redis.ttl(access_token_key)` answered
has_token_expired(ttl) ==
    IF ttl = KEY_ABSENT THEN "KeyError"
    ELSE IF ttl = NO_EXPIRY THEN PyBool(FALSE)
    ELSE PyBool(ttl <= 0)

\* the answers of redis.ttl the function is tried on
TtlValues == (0 - MaxTtl)..MaxTtl

\* has_token_expired resumes with the answer of redis.ttl
HasTokenExpired(r) ==
    /\ At(r, "expired", "ex_ttl")
    /\ req' = [req EXCEPT ![r] =
                Finish(req[r], has_token_expired(req[r].ttl))]
    /\ UNCHANGED <<cache, drawn, issuer, hist, blocked, is_revoked_cfg>>

\* calls of has_token_expired, each awaiting redis.ttl, for every answer
InitExpired ==
    /\ cache = EmptyCache
    /\ req \in [Slots -> {[Blank EXCEPT !.kind = "expired", !.pc = "ex_ttl",
                                        !.ttl = t] : t \in TtlValues}]
    /\ drawn = {}
    /\ issuer = [issued |-> {}, granted |-> {}, exchanges |-> <<>>,
                 revoked |-> {}]
    /\ hist = [states |-> {}, redeemed |-> {}, tokens |-> {},
               logged_out |-> {}]
    /\ blocked = {}
    /\ is_revoked_cfg \in BOOLEAN

NextExpired == \E r \in Slots : HasTokenExpired(r)

SpecExpired == InitExpired /\ [][NextExpired]_vars

\* ----------------------------------------------------------------- claims
Range(f) == {f[i] : i \in DOMAIN f}
Index(path, stage) ==
    IF stage \in Range(path)
    THEN CHOOSE i \in DOMAIN path : path[i] = stage ELSE 0
\* the stages all occur in path, in the order given
InOrder(path, stages) ==
    /\ \A i \in DOMAIN stages : stages[i] \in Range(path)
    /\ \A i, j \in DOMAIN stages :
        i < j => Index(path, stages[i]) < Index(path, stages[j])

Ended(r, kind) == req[r].kind = kind /\ req[r].pc = "done"
\* a request the middleware has to authenticate
Protected(r) ==
    req[r].kind = "mw" /\ req[r].method # "OPTIONS" /\ ~req[r].whitelisted
Delegated(r) == "DELEGATE" \in Range(req[r].path)
\* REJECTED: the middleware answered with one of its own statuses
Rejected(r) ==
    /\ req[r].pc = "done"
    /\ req[r].result \in {"401 Missing authorization token",
                          "401 Invalid authorization token",
                          "403 Token is revoked", "403 Forbidden"}
\* the request fails one of the four steps
FailsStep(r) ==
    \/ ~Truthy(req[r].token)
    \/ Decode(req[r].jwt) # "decoded"
    \/ Truthy(req[r].revoked)
    \/ has_permissions(req[r].jwt) # "True"
PassedSteps(r) ==
    /\ Truthy(req[r].token)
    /\ Decode(req[r].jwt) = "decoded"
    /\ ~Truthy(req[r].revoked)
    /\ has_permissions(req[r].jwt) = "True"
    /\ InOrder(req[r].path,
            <<"TOKEN_EXTRACT", "TOKEN_VERIFY", "PERMISSION_CHECK", "DELEGATE">>)
    /\ is_revoked_cfg =>
        InOrder(req[r].path,
            <<"TOKEN_VERIFY", "REVOCATION_CHECK", "PERMISSION_CHECK">>)

\* C1: a request that is neither OPTIONS nor whitelisted reaches the handler
\* only after passing TOKEN_EXTRACT, TOKEN_VERIFY, REVOCATION_CHECK and
\* PERMISSION_CHECK in this order; a request that fails one of these steps
\* ends in REJECTED, and the handler is not invoked.
C1_HandlerOnlyAfterPipelineElseRejected ==
    \A r \in Slots : Protected(r) =>
        /\ Delegated(r) => PassedSteps(r)
        /\ (req[r].pc = "done" /\ FailsStep(r)) =>
                Rejected(r) /\ ~Delegated(r)

\* C2: with is_revoked configured, a protected request with an otherwise
\* valid JWT whose token has no cache entry -- the request arrived after a
\* logout had answered 204 for the token -- is rejected and does not reach
\* the handler.
C2_MissingEntryRejected ==
    \A r \in Slots :
        (/\ is_revoked_cfg
         /\ Protected(r) /\ req[r].pc = "done"
         /\ req[r].jwt = "valid"
         /\ req[r].token \in req[r].since
         /\ req[r].exists = PyBool(FALSE))
        => (Rejected(r) /\ ~Delegated(r))

\* C3: a callback that arrives with a state (and a code) after this state
\* has been redeemed fails with UnknownState: it sends no token exchange and
\* writes no entry.
C3_SecondRedeemUnknownState ==
    \A r \in Slots :
        (/\ req[r].kind = "callback" /\ req[r].pc # "cb_get"
         /\ Truthy(req[r].code)
         /\ req[r].state \in req[r].since)
        => /\ req[r].pc = "done" /\ req[r].result = "UnknownState"
           /\ req[r].called = {} /\ req[r].wrote = {}

\* C4: no code verifier is sent to the token-exchange endpoint in two
\* exchange calls.
C4_VerifierSentOnce ==
    \A i, j \in DOMAIN issuer.exchanges :
        (i # j /\ issuer.exchanges[i] \in Verifiers)
            => issuer.exchanges[i] # issuer.exchanges[j]

\* C5: a callback (carrying a code) whose lookup found no code verifier has
\* failed with UnknownState, has called no issuer endpoint and has written
\* no cache entry.
C5_UnknownStateBeforeExchange ==
    \A r \in Slots :
        (/\ req[r].kind = "callback" /\ req[r].pc # "cb_get"
         /\ Truthy(req[r].code)
         /\ req[r].code_verifier = None)
        => /\ req[r].pc = "done" /\ req[r].result = "UnknownState"
           /\ req[r].called = {} /\ req[r].wrote = {}

\* a cache key made for this access token
KeyedBy(k, access_token) == access_token \in Range(k)

\* C6: when a callback answers 302 with (AT, RT, N), the cache holds an
\* entry keyed by AT whose TTL is N (less the time gone by since), an entry
\* keyed by AT that holds RT, and no code verifier for the redeemed state.
C6_CallbackLeavesTokenPair ==
    [][\A r \in Slots :
        (/\ req[r].kind = "callback" /\ req[r].pc = "cb_assert"
         /\ req'[r].pc = "done" /\ req'[r].result = "302")
        => /\ \E k \in DOMAIN cache' :
                /\ KeyedBy(k, req[r].access_token)
                /\ cache'[k].ttl \in 1..req[r].expires_in
           /\ \E k \in DOMAIN cache' :
                /\ KeyedBy(k, req[r].access_token)
                /\ cache'[k].value = req[r].refresh_token
           /\ ~Exists(cache', CodeVerifierKey(req[r].state))]_vars

\* C7: whenever the middleware has called is_revoked for a token, the value
\* returned is true if and only if the cache held no entry for the token.
C7_IsRevokedIffAbsent ==
    \A r \in Slots :
        (req[r].kind = "mw" /\ req[r].exists # None)
            => (req[r].revoked = PyBool(TRUE) <=> req[r].exists = PyBool(FALSE))

\* C8: is_revoked is false for a token whose entry the callback has written
\* and that no logout has removed, and true for a token once a logout has
\* answered 204 for it and its entry is gone.
C8_RevokedRightAfterLogout ==
    [][\A r \in Slots :
        (/\ req[r].kind = "mw" /\ req[r].pc = "mw_is_revoked"
         /\ req'[r] # req[r])
        => /\ Exists(cache, TokenPairKey(req[r].token))
                => ~Truthy(req'[r].revoked)
           /\ (/\ req[r].token \in hist.logged_out
               /\ ~Exists(cache, TokenPairKey(req[r].token)))
                => req'[r].revoked = PyBool(TRUE)]_vars

\* C9: a logout whose lookup found no entry for the token has ended with
\* TokenAlreadyRevoked, has not called the issuer's revocation endpoint and
\* has not changed the cache.
C9_LogoutAbsentTokenAlreadyRevoked ==
    \A r \in Slots :
        (req[r].kind = "logout" /\ req[r].pc # "lo_get" /\ req[r].token = None)
        => /\ req[r].pc = "done" /\ req[r].result = "TokenAlreadyRevoked"
           /\ req[r].called = {} /\ req[r].wrote = {}

\* C9 happens: a logout of a token that an earlier logout removed from the
\* cache was answered TokenAlreadyRevoked.
C9_Witness ==
    \E r \in Slots :
        /\ Ended(r, "logout") /\ req[r].token = None
        /\ req[r].sso_token \in hist.logged_out
        /\ req[r].result = "TokenAlreadyRevoked"

\* how a logout can end without having crashed
LogoutSuccess == "204"
AlreadyRevoked == "TokenAlreadyRevoked"
IssuerError == "ValueError"

\* C10: every logout ends in 204, in TokenAlreadyRevoked or in the error
\* raised for an issuer failure, never in an assertion failure or another
\* error; and TokenAlreadyRevoked is not the issuer error.
C10_LogoutNeverCrashes ==
    /\ \A r \in Slots : Ended(r, "logout") =>
        req[r].result \in {LogoutSuccess, AlreadyRevoked, IssuerError}
    /\ AlreadyRevoked # IssuerError

\* the requests that read or remove the entry of the access token t
Touches(q, t) ==
    \/ req[q].kind = "logout" /\ req[q].sso_token = t
    \/ req[q].kind = "mw" /\ req[q].token = t

\* C11: a logout that has sent the revocation call is not stopped by a
\* cancellation, and once it and every concurrent request for the same token
\* have ended, the issuer has revoked what the logout sent if and only if
\* the token's cache entry is absent.
C11_LogoutNoTornState ==
    \A r \in Slots :
        (req[r].kind = "logout" /\ "revoke" \in req[r].called) =>
            /\ req[r].result # "CancelledError"
            /\ (\A q \in Slots : Touches(q, req[r].sso_token) => ~Running(q))
                => (req[r].token \in issuer.revoked
                    <=> ~Exists(cache, TokenPairKey(req[r].sso_token)))

\* C11 happens: a logout cancelled after it sent the revocation call ended
\* with the token revoked and its entry gone, and a read of the same token
\* that ran beside it has ended too.
C11_Witness ==
    \E r, q \in Slots :
        /\ Ended(r, "logout") /\ req[r].cancelled
        /\ req[r].token \in issuer.revoked
        /\ ~Exists(cache, TokenPairKey(req[r].sso_token))
        /\ Ended(q, "mw") /\ req[q].token = req[r].sso_token

\* the three cache mutations that follow a granted exchange
ExchangeMutations(rec) ==
    {CodeVerifierKey(rec.state), AccessTokenKey(rec.access_token),
     TokenPairKey(rec.access_token)}

\* C12: a callback that was cancelled after it sent the exchange call has
\* applied all of the mutations that follow the exchange (verifier deleted,
\* access-token entry written, refresh-token entry written) or, when the
\* exchange granted nothing, none of them; never only a part.
C12_ExchangeLegNotCancellable ==
    \A r \in Slots :
        (/\ Ended(r, "callback") /\ req[r].cancelled
         /\ "token" \in req[r].called)
        => IF req[r].access_token # None
           THEN req[r].wrote = ExchangeMutations(req[r])
           ELSE req[r].wrote = {}

\* C13: has_token_expired raises KeyError (UnknownKey) for the TTL of an
\* absent key, returns false for the TTL of a key without expiry, true for
\* any other TTL that is zero or negative, and false for a positive TTL.
C13_HasTokenExpired ==
    \A r \in Slots : Ended(r, "expired") =>
        LET ttl == req[r].ttl IN
        /\ ttl = KEY_ABSENT => req[r].result = "KeyError"
        /\ ttl = NO_EXPIRY => req[r].result = "False"
        /\ (ttl <= 0 /\ ttl \notin {KEY_ABSENT, NO_EXPIRY})
                => req[r].result = "True"
        /\ ttl > 0 => req[r].result = "False"

\* C13 happens: the function raised for an absent key and answered true
\* for a TTL of zero.
C13_Witness ==
    \E r, q \in Slots :
        /\ Ended(r, "expired") /\ req[r].ttl = KEY_ABSENT
        /\ req[r].result = "KeyError"
        /\ Ended(q, "expired") /\ req[q].ttl = 0 /\ req[q].result = "True"

\* the steps that authenticate a request
AuthSteps ==
    {"TOKEN_EXTRACT", "TOKEN_VERIFY", "REVOCATION_CHECK", "PERMISSION_CHECK"}

\* C14: a protected request with a well-formed but expired JWT ends in the
\* middleware's 401 for an invalid token and reaches neither
\* PERMISSION_CHECK nor CONTEXT_ATTACH nor the handler.
C14_ExpiredJwtRejected401 ==
    \A r \in Slots :
        (Protected(r) /\ req[r].jwt = "expired") =>
            /\ Range(req[r].path)
                \cap {"PERMISSION_CHECK", "CONTEXT_ATTACH", "DELEGATE"} = {}
            /\ req[r].pc = "done"
                => req[r].result = "401 Invalid authorization token"

\* C15: a request with method OPTIONS or for a whitelisted path has gone
\* straight to the handler: none of the authenticating steps was run and
\* the middleware called neither the issuer nor the cache for it.
C15_PreflightAndWhitelistBypass ==
    \A r \in Slots :
        (req[r].kind = "mw"
            /\ (req[r].method = "OPTIONS" \/ req[r].whitelisted)) =>
            /\ req[r].pc = "done" /\ req[r].result = "handler"
            /\ Range(req[r].path) \cap AuthSteps = {}
            /\ req[r].called = {} /\ req[r].wrote = {}
            /\ req[r].exists = None

\* C15 happens: an OPTIONS request for a protected path, carrying a token
\* with a bad signature, was handed to the handler, and so was a GET for a
\* whitelisted path without a token.
C15_Witness ==
    \E r \in Slots :
        /\ Ended(r, "mw") /\ req[r].result = "handler"
        /\ \/ /\ req[r].method = "OPTIONS" /\ ~req[r].whitelisted
              /\ req[r].jwt = "bad_signature"
           \/ /\ req[r].method = "GET" /\ req[r].whitelisted
              /\ req[r].token = NoToken

\* the ways a token fails verification
VerificationFailures ==
    {"bad_signature", "expired", "bad_issuer", "bad_audience", "unknown_kid"}

\* C19: a protected request whose token came to be verified (the issuer
\* answered both the userinfo and the key-set request) and fails
\* verification ends in the middleware's 401 for an invalid token.
C19_VerificationFailure401 ==
    \A r \in Slots :
        (/\ Protected(r) /\ req[r].pc = "done"
         /\ req[r].jwt \in VerificationFailures
         /\ "public_keys" \in req[r].called
         /\ req[r].result # "ClientResponseError")
        => req[r].result = "401 Invalid authorization token"

\* C20: whatever is attached to a request was attached after its
\* permission check, and a request answered 403 Forbidden has nothing
\* attached.
C20_AttachAfterPermissionCheck ==
    \A r \in Slots : req[r].kind = "mw" =>
        /\ "CONTEXT_ATTACH" \in Range(req[r].path)
            => InOrder(req[r].path, <<"PERMISSION_CHECK", "CONTEXT_ATTACH">>)
        /\ req[r].result = "403 Forbidden" => req[r].attached = {}

\* C16: when a login answers with the redirect, the code_challenge in its
\* URL is base64url(sha256(v)) without padding, v being the code verifier
\* the cache holds under the state in the same URL.
C16_ChallengeOfStoredVerifier ==
    [][\A r \in Slots :
        (/\ req[r].kind = "login" /\ req[r].pc = "login_exists"
         /\ req'[r].result = "302")
        => LET code_challenge == req'[r].url[1]
               state == req'[r].url[2]
               v == Get(cache', CodeVerifierKey(state)) IN
           /\ v \in Verifiers
           /\ code_challenge = <<"b64url", "sha256", v>>]_vars

\* C16 happens: a login answered with a redirect carrying a challenge.
C16_Witness ==
    \E r \in Slots :
        /\ Ended(r, "login") /\ req[r].result = "302"
        /\ Len(req[r].url) = 2 /\ req[r].url[2] \in States

\* the keys of the token entries of the cache
IsTokenKey(k) == k[1] = TOKEN_REDIS_KEY[1]

\* C17: a callback without a code is answered 400 and has called no issuer
\* endpoint; a callback the issuer answered with an error payload is
\* answered 400; neither has written a token entry.
C17_Callback400 ==
    \A r \in Slots :
        (Ended(r, "callback") /\ ~req[r].cancelled) =>
            /\ ~Truthy(req[r].code) =>
                /\ req[r].result = "400" /\ req[r].called = {}
                /\ \A k \in req[r].wrote : ~IsTokenKey(k)
            /\ req[r].resp = "error" =>
                /\ req[r].result = "400"
                /\ \A k \in req[r].wrote : ~IsTokenKey(k)

\* C17 happens: one callback without a code and one refused by the issuer
\* with an error payload were both answered 400.
C17_Witness ==
    \E r, q \in Slots :
        /\ Ended(r, "callback") /\ req[r].code = None /\ req[r].result = "400"
        /\ Ended(q, "callback") /\ req[q].resp = "error"
        /\ req[q].result = "400"

\* C18: the step in which a logout learns of a status other than 200 ends
\* the logout with an error and leaves the cache as it was, the token's
\* entry still in it; and a logout deletes the entry only after the issuer
\* answered it 200.
C18_DeleteOnlyOnIssuerSuccess ==
    [][\A r \in Slots : req[r].kind = "logout" =>
        /\ (req[r].pc = "lo_post" /\ req'[r].status \notin {None, "200"}) =>
            /\ req'[r].pc = "done" /\ req'[r].result = "ValueError"
            /\ cache' = cache
            /\ Exists(cache', TokenPairKey(req[r].sso_token))
        /\ (req[r].pc = "lo_delete" /\ req'[r].pc = "lo_gone") =>
            req[r].status = "200"]_vars

\* C18 happens: a logout the issuer answered 503 has failed and the
\* token's entry is still in the cache.
C18_Witness ==
    \E r \in Slots :
        /\ Ended(r, "logout") /\ req[r].status = "503"
        /\ req[r].result = "ValueError" /\ req[r].wrote = {}
        /\ Exists(cache, TokenPairKey(req[r].sso_token))

\* the keys of the code-verifier entries of the cache
IsVerifierKey(k) == k[1] = CODE_VERIFIER_REDIS_KEY[1]

\* C21: the entry login stores for a state carries a bounded TTL, so that
\* it leaves the cache when no callback comes for it.  Time passes by Tick
\* alone, which removes an entry when its TTL has run out and never an entry
\* without one.
C21_VerifierEntryExpires ==
    \A k \in DOMAIN cache :
        IsVerifierKey(k) => cache[k].ttl # NO_EXPIRY /\ cache[k].ttl > 0

\* the entry that is_revoked, logout and the callback's assert look up
IsLookupKey(k) == \E t \in AccessTokens : k = TokenPairKey(t)

\* C22: the entry looked up for an access token issued with expires_in = N
\* leaves the cache once N units of time have passed: it carries a TTL, and
\* one of at most the largest expires_in the issuer reports.
C22_TokenEntryExpires ==
    \A k \in DOMAIN cache :
        IsLookupKey(k) => cache[k].ttl \in 1..MaxExpiresIn

\* the entries of the cache that hold the access token t or its refresh token
EntriesOf(c, t) ==
    {k \in DOMAIN c : c[k].value \in {t, RefreshTokenOf(t)}}

\* C23: a step in which a callback writes the access-token entry or the
\* refresh-token entry of its token leaves every entry of every other
\* access token in the cache, with its value and its TTL.
C23_IssueLeavesOtherTokensAlone ==
    [][\A r \in Slots :
        (/\ req[r].kind = "callback"
         /\ req[r].pc \in {"cb_set_access", "cb_set_refresh"}
         /\ req'[r].pc # req[r].pc)
        => \A t \in (AccessTokens \cup {PriorToken}) \ {req[r].access_token} :
            \A k \in EntriesOf(cache, t) :
                k \in DOMAIN cache' /\ cache'[k] = cache[k]]_vars

\* the errors no handler raises on purpose
Crashes == {"KeyError", "AttributeError", "TypeError", "AssertionError"}

\* a refresh request arrives in slot r in this step
RefreshArrives(r) == req[r].kind # "refresh" /\ req'[r].kind = "refresh"

\* C24: a refresh for an access token whose entry is in the cache and not
\* expired (has_token_expired of its TTL is false) is refused at once: with
\* an error raised on purpose, not a crash and not a 200, without a call to
\* the issuer and without a change of the cache.
C24_RefreshOfLiveTokenRefused ==
    [][\A r \in Slots :
        (/\ RefreshArrives(r)
         /\ \E k \in DOMAIN cache :
                /\ cache[k].value = req'[r].access_token
                /\ has_token_expired(cache[k].ttl) = "False")
        => /\ req'[r].pc = "done"
           /\ req'[r].result \notin Crashes \cup {"200"}
           /\ req'[r].called = {} /\ cache' = cache]_vars

\* C25: a refresh for an access token that a callback issued and whose
\* entry has run out of time sends the issuer's refresh call and does not
\* crash (to answer 200 with the new pair when the issuer grants one).
C25_RefreshOfExpiredTokenCallsIssuer ==
    [][\A r \in Slots :
        (/\ RefreshArrives(r)
         /\ req'[r].access_token \in hist.tokens
         /\ \A k \in DOMAIN cache : cache[k].value # req'[r].access_token)
        => /\ "refresh" \in req'[r].called
           /\ req'[r].result \notin Crashes]_vars

\* request r has sent a call to the issuer and waits for the answer
WaitsForIssuer(r) ==
    req[r].pc \in {"cb_exchange", "lo_post", "mw_userinfo", "mw_jwks"}

\* the next step of the request in slot q
Resume(q) ==
    \/ LoginSet(q) \/ LoginExists(q)
    \/ CallbackGet(q) \/ CallbackExchange(q) \/ CallbackRevokeDelete(q)
    \/ CallbackRevokeExists(q) \/ CallbackSetAccess(q)
    \/ CallbackSetRefresh(q) \/ CallbackAssert(q)
    \/ LogoutGet(q) \/ LogoutPost(q) \/ LogoutExists(q)
    \/ LogoutDelete(q) \/ LogoutGone(q)
    \/ MiddlewareUserinfo(q) \/ MiddlewareJwks(q) \/ MiddlewareIsRevoked(q)

\* C26: while a request waits for the issuer's answer (exchange, JWKS,
\* userinfo, logout's revocation call), every other request in flight can
\* take its next step.
C26_IssuerCallsSuspend ==
    \A r, q \in Slots :
        (r # q /\ WaitsForIssuer(r) /\ Running(q)) => ENABLED Resume(q)
====
